---- MODULE Spec2Model ----
(***************************************************************************)
(* A model of the Vira command-line front-end (src/cli): locating the      *)
(* project manifest bytes.yml by an ancestor walk, loading it, resolving   *)
(* the declared dependencies against the library directory ~/.vira/libs,   *)
(* and delegating to the external toolchain binaries through               *)
(* run_subprocess.  One run of the CLI process is one "pass"; the user may *)
(* invoke the same command again, the library directory persisting.        *)
(***************************************************************************)
EXTENDS Naturals, Sequences, FiniteSets, TLC

VARIABLES
    files,        \* the directories that hold a bytes.yml
    cwd,          \* Path.cwd() of the process
    content,      \* what the manifest file holds
    store,        \* the entries of ~/.vira/libs
    args,         \* the parsed command line
    handler,      \* the method of ViraCLI called for the command
    pass,         \* which invocation of the command this is
    passes,       \* one record per finished invocation
    passStore,    \* the store when this invocation began
    pc,           \* where the process is
    current,      \* find_bytes_yml: the directory being looked at
    steps,        \* find_bytes_yml: parent steps taken
    path,         \* load_bytes_yml: the located manifest, or None
    config,       \* the dict load_bytes_yml returned
    items,        \* resolve_dependencies: deps.items()
    idx,          \* resolve_dependencies: iterations begun
    todo,         \* the handler's subprocess calls still to make
    running,      \* the subprocesses started and not yet returned
    invocations,  \* argument vectors handed to run_subprocess, in order
    report,       \* one record per store probe of resolve_dependencies
    failure       \* why the process stopped

vars == <<files, cwd, content, store, args, handler, pass, passes, passStore, pc,
          current, steps, path, config, items, idx, todo, running,
          invocations, report, failure>>

(***************************************************************************)
(* Bounds of the model.                                                    *)
(***************************************************************************)
\* depth of the deepest directory of the tree
MaxDepth == 2
\* most manifests placed in one tree (locate specification)
MaxManifests == 3
\* most entries of one `dependencies` mapping
MaxDeps == 2
\* most *.vira files found by rglob in the source directory
MaxFiles == 1
\* most successive invocations of the command by the user
MaxPasses == 2

\* the evaluations a user of the tutorial asks for
MaxAttempts == 2

(***************************************************************************)
(* The filesystem: a directory is the sequence of its path components, the *)
(* filesystem root is the empty sequence.                                  *)
(***************************************************************************)
Comp == {"p", "q"}

Dirs == UNION {[1..n -> Comp] : n \in 0..MaxDepth}

Root == << >>

\* pathlib: Path.parent; the root is its own parent
Parent(d) == IF d = Root THEN d ELSE SubSeq(d, 1, Len(d) - 1)

\* the loop condition of find_bytes_yml negated: current == current.parent
AtRoot(d) == d = Parent(d)

\* current / "bytes.yml"
ManifestPath(d) == Append(d, "bytes.yml")

\* the value None of an Optional[Path]
None == <<"None">>

\* descendant search, the variant the ancestor walk replaced
ExistsBelow(fs, d) ==
    \E f \in fs : Len(f) >= Len(d) /\ SubSeq(f, 1, Len(d)) = d

\* bytes_path.exists() for bytes_path = d / "bytes.yml"
Exists(fs, d) == d \in fs

\* the directories from d up to the root, d and the root included
RECURSIVE Ancestors(_)
Ancestors(d) == IF d = Root THEN {d} ELSE {d} \cup Ancestors(Parent(d))

(***************************************************************************)
(* The manifest bytes.yml as yaml.safe_load returns it.  A key that the    *)
(* document does not hold is Absent; `dependencies` may be absent, hold no *)
(* value (YAML null, Python None) or hold a mapping, kept as the list of   *)
(* its items in document order (dict order).                               *)
(***************************************************************************)
Absent == "<absent>"

DepNames == {"a", "a-b", "c"}

DepVersions == {"1", "b-1"}

DepItems == [dep : DepNames, version : DepVersions]

\* the keys of a mapping are unique
UniqueKeys(s) == \A i, j \in 1..Len(s) : i # j => s[i].dep # s[j].dep

DepLists ==
    {s \in UNION {[1..n -> DepItems] : n \in 0..MaxDeps} : UniqueKeys(s)}

DepValues ==
    {[state |-> "absent", items |-> << >>], [state |-> "null", items |-> << >>]}
        \cup {[state |-> "map", items |-> s] : s \in DepLists}

\* the mappings yaml.safe_load returns: `dependencies` as above, and
\* `dev-dependencies` (dev) as the sequence of its items, empty when absent
Dicts ==
    [kind : {"dict"}, name : {Absent, "proj"},
     version : {Absent, "", "0.1.0"}, deps : DepValues, dev : {<< >>}]

\* manifests with a `dev-dependencies` mapping: one that names a dependency
\* `dependencies` names too, and one that alone names it
DevDicts ==
    {[kind |-> "dict", name |-> "proj", version |-> "0.1.0",
      deps |-> d, dev |-> <<[dep |-> "a", version |-> "1"]>>] :
        d \in {[state |-> "map", items |-> <<[dep |-> "a", version |-> "1"]>>],
               [state |-> "absent", items |-> << >>]}}

\* the dict {}
EmptyDict ==
    [kind |-> "dict", name |-> Absent, version |-> Absent,
     deps |-> [state |-> "absent", items |-> << >>], dev |-> << >>]

\* a document that is not valid YAML, and the empty document (None)
Malformed == [EmptyDict EXCEPT !.kind = "malformed"]

EmptyDocument == [EmptyDict EXCEPT !.kind = "empty"]

Contents == Dicts \cup DevDicts \cup {Malformed, EmptyDocument}

(***************************************************************************)
(* The library directory ~/.vira/libs: the set of the names of its         *)
(* entries.                                                                *)
(***************************************************************************)
\* the entry the package tool creates for name@version
StoreEntry(dep, version) == dep \o "-" \o version

\* the probed name without the version
DepPathNameNoVersion(dep, version) == dep

\* f"{dep}-{version}", the name resolve_dependencies probes
DepPathName(dep, version) == dep \o "-" \o version

\* f"{dep}@{version}", the package argument of the install request
PackageArg(dep, version) == dep \o "@" \o version

\* the test of resolve_dependencies inverted
DepPathExistsNegated(st, dep, version) == DepPathName(dep, version) \notin st

\* dep_path.exists()
DepPathExists(st, dep, version) == DepPathName(dep, version) \in st

\* the entries of the dependencies a manifest declares
DeclaredEntries(c) ==
    {StoreEntry(c.deps.items[i].dep, c.deps.items[i].version) :
        i \in 1..Len(c.deps.items)}

(***************************************************************************)
(* The command line and the argument vectors handed to run_subprocess      *)
(* (the directory ~/.vira/bin of the executable is left out).              *)
(***************************************************************************)
ManifestCommands == {"compile", "test", "check", "fmt", "install"}

\* self.commands: the command names and the methods registered for them
CommandTable ==
    {<<"repl", "repl">>, <<"help", "help_cmd">>, <<"compile", "compile">>,
     <<"run", "run">>, <<"docs", "docs">>, <<"init", "init">>,
     <<"install", "install">>, <<"remove", "remove">>,
     <<"update", "update">>, <<"upgrade", "upgrade">>,
     <<"updat?", "updat_question">>, <<"refresh", "refresh">>,
     <<"test", "test">>, <<"check", "check">>, <<"fmt", "fmt">>,
     <<"clean", "clean">>, <<"search", "search">>,
     <<"tutorial", "tutorial">>, <<"version", "version">>,
     <<"version-bytes", "version_bytes">>, <<"doctor", "doctor">>}

Registered == {p[1] : p \in CommandTable}

\* self.commands.get(args.command)
HandlerOf(name) == (CHOOSE p \in CommandTable : p[1] = name)[2]

\* args.command when the command line names no command
NoCommand == "<none>"

\* the command lines of the entry point: -h, -v and a command
MainArgSet ==
    [command : Registered \cup {NoCommand}, packages : {<< >>},
     help : BOOLEAN, verbose : BOOLEAN]

\* the commands whose run_subprocess call captures the output
CaptureCommands == {"search", "tutorial"}

ArgSet ==
    [command : ManifestCommands \cup {"run"} \cup CaptureCommands,
     packages : {<< >>}]
        \cup {[command |-> "install",
               packages |-> <<[dep |-> "c", version |-> "1"]>>]}

\* timeout=None, the default of run_subprocess
NoTimeout == 0

\* timeout=300 of the run handler
RunTimeout == 300

\* one run_subprocess call: its command, its timeout, the store entries the
\* subprocess creates when it succeeds, and where the caller goes on
Call(argv, timeout, creates, ret) ==
    [argv |-> argv, timeout |-> timeout, creates |-> creates, ret |-> ret,
     capture |-> FALSE]

\* run_subprocess(cmd, capture_output=True): check_output instead of
\* check_call, no timeout
CaptureCall(argv, ret) ==
    [Call(argv, NoTimeout, {}, ret) EXCEPT !.capture = TRUE]

\* [vira-packages, "install", f"{dep}@{version}"]
InstallCmd(dep, version) ==
    <<"vira-packages", "install", PackageArg(dep, version)>>

\* an install request (without --in-project) and the entry it creates
InstallCall(d, ret) ==
    Call(InstallCmd(d.dep, d.version), NoTimeout,
         {StoreEntry(d.dep, d.version)}, ret)

\* the source, output and tests directories at their defaults
CompileCmd == <<"vira-compiler", "compile", "cmd", "--output", "build">>

TestCmd == <<"vira-compiler", "test", "tests">>

RunCmd == <<"vira-compiler", "run", "main.vira">>

SearchCmd == <<"vira-packages", "search", "query">>

\* the user's answer to a lesson, handed to the compiler
EvalCmd == <<"vira-compiler", "eval", "user_code">>

\* lessons = [Lesson 1, Lesson 2, Lesson 3]
NumLessons == 3

\* the evaluation of each lesson's answer, in the order of the lessons
Lessons == [k \in 1..NumLessons |-> CaptureCall(EvalCmd, "lesson_done")]

\* one call per *.vira file of the source directory
FileCalls(tool, n) ==
    [k \in 1..n |->
        Call(<<"vira-parser_lexer", tool, ToString(k) \o ".vira">>,
             NoTimeout, {}, "exec")]

NoFailure == [kind |-> "none", argv |-> << >>]

Failure(kind, argv) == [kind |-> kind, argv |-> argv]

Finished == {"done", "exited", "crashed"}

\* the exit status of the process
ExitStatus == IF pc = "done" THEN 0 ELSE 1

(***************************************************************************)
(* Initial states.                                                         *)
(***************************************************************************)
\* the deepest directory of the tree: the project directory
ProjectDir == [i \in 1..MaxDepth |-> "p"]

ProcessInit ==
    /\ pass = 1
    /\ passes = << >>
    /\ passStore = store
    /\ current = cwd
    /\ steps = 0
    /\ path = None
    /\ config = EmptyDict
    /\ items = << >>
    /\ idx = 0
    /\ todo = << >>
    /\ running = {}
    /\ invocations = << >>
    /\ report = << >>
    /\ failure = NoFailure

\* the CLI started in the project directory; the project's manifest, when
\* there is one, lies in that directory or in the one above it
Init ==
    /\ cwd = ProjectDir
    /\ files \in {{}, {ProjectDir}, {Parent(ProjectDir)}}
    /\ content \in IF files = {} THEN {EmptyDocument} ELSE Contents
    /\ store \in SUBSET DeclaredEntries(content)
    /\ args \in ArgSet
    /\ args.command \in CaptureCommands => files = {}
    /\ handler = HandlerOf(args.command)
    /\ pc = "start"
    /\ ProcessInit

\* find_bytes_yml called on any directory of any tree
InitLocate ==
    /\ cwd \in Dirs
    /\ files \in {fs \in SUBSET Dirs : Cardinality(fs) <= MaxManifests}
    /\ content = EmptyDict
    /\ store = {}
    /\ args = [command |-> "compile", packages |-> << >>]
    /\ handler = HandlerOf(args.command)
    /\ pc = "find"
    /\ ProcessInit

\* python main.py <command line>: nothing of the module has run yet
InitMain ==
    /\ cwd = ProjectDir
    /\ files = {}
    /\ content = EmptyDocument
    /\ store = {}
    /\ args \in MainArgSet
    /\ handler = "none"
    /\ pc = "main"
    /\ ProcessInit

(***************************************************************************)
(* Actions.                                                                *)
(***************************************************************************)
env == <<files, cwd, content, args, handler, pass, passes, passStore>>

locals == <<current, steps, path, config, items, idx>>

\* sys.exit(1) after an error message
Exit(kind, argv) ==
    /\ pc' = "exited"
    /\ failure' = Failure(kind, argv)

\* an exception nobody catches: traceback, exit status 1
Crash(kind, argv) ==
    /\ pc' = "crashed"
    /\ failure' = Failure(kind, argv)

\* ViraCLI.run: the handler of args.command begins
Dispatch ==
    /\ pc = "start"
    /\ IF args.command = "run"
         THEN /\ todo' = <<Call(RunCmd, RunTimeout, {}, "exec")>>
              /\ pc' = "exec"
              /\ UNCHANGED <<current, steps>>
         ELSE IF args.command = "search"
         THEN /\ todo' = <<CaptureCall(SearchCmd, "exec")>>
              /\ pc' = "exec"
              /\ UNCHANGED <<current, steps>>
         ELSE IF args.command = "tutorial"
         THEN /\ todo' = Lessons
              /\ pc' = "prompt"
              /\ UNCHANGED <<current, steps>>
         ELSE IF args.command = "install" /\ args.packages # << >>
         THEN /\ todo' = [k \in 1..Len(args.packages) |->
                             InstallCall(args.packages[k], "exec")]
              /\ pc' = "exec"
              /\ UNCHANGED <<current, steps>>
         ELSE \* load_bytes_yml() -> find_bytes_yml()
              /\ pc' = "find"
              /\ current' = cwd
              /\ steps' = 0
              /\ todo' = todo
    /\ UNCHANGED <<env, store, path, config, items, idx, running,
                   invocations, report, failure>>

\* find_bytes_yml: bytes_path.exists(), return bytes_path
LocateFound ==
    /\ pc = "find"
    /\ ~AtRoot(current)
    /\ Exists(files, current)
    /\ path' = ManifestPath(current)
    /\ pc' = "load"
    /\ UNCHANGED <<env, store, current, steps, config, items, idx, todo,
                   running, invocations, report, failure>>

\* find_bytes_yml: current = current.parent
LocateUp ==
    /\ pc = "find"
    /\ ~AtRoot(current)
    /\ ~Exists(files, current)
    /\ current' = Parent(current)
    /\ steps' = steps + 1
    /\ UNCHANGED <<env, store, pc, path, config, items, idx, todo, running,
                   invocations, report, failure>>

\* find_bytes_yml: the loop ends, return None
LocateNone ==
    /\ pc = "find"
    /\ AtRoot(current)
    /\ path' = None
    /\ pc' = "load"
    /\ UNCHANGED <<env, store, current, steps, config, items, idx, todo,
                   running, invocations, report, failure>>

\* load_bytes_yml answering a YAMLError with the default {}
YamlErrorSwallowed == {"loaded"}

\* except yaml.YAMLError: main.py ends the process with sys.exit(1),
\* config.py logs and raises again (nobody catches it)
YamlErrorOutcomes == {"exited", "crashed"}

\* load_bytes_yml, after find_bytes_yml returned
LoadBytesYml ==
    /\ pc = "load"
    /\ IF path = None
         THEN \* "No bytes.yml found. Using defaults."
              /\ config' = EmptyDict
              /\ pc' = "loaded"
              /\ failure' = failure
         ELSE IF content.kind = "malformed"
         THEN /\ \E outcome \in YamlErrorOutcomes :
                   /\ pc' = outcome
                   /\ failure' = IF outcome = "loaded" THEN failure
                                 ELSE Failure("YAMLError", << >>)
              /\ config' = config
         ELSE \* return config or {}
              /\ config' = IF content.kind = "empty" THEN EmptyDict
                           ELSE content
              /\ pc' = "loaded"
              /\ failure' = failure
    /\ UNCHANGED <<env, store, current, steps, path, items, idx, todo,
                   running, invocations, report>>

\* config.get("dependencies", {})
GetDependencies(c) ==
    IF c.deps.state = "absent" THEN [state |-> "map", items |-> << >>]
    ELSE c.deps

\* compile going to the compiler call without resolve_dependencies
ResolveSkipped ==
    /\ pc = "loaded"
    /\ args.command = "compile"
    /\ items' = GetDependencies(config).items
    /\ todo' = <<Call(CompileCmd, NoTimeout, {}, "exec")>>
    /\ pc' = "exec"
    /\ UNCHANGED <<env, store, current, steps, path, config, idx, running,
                   invocations, report, failure>>

\* compile: resolve_dependencies(config) begins; None has no .items()
ResolveBegin ==
    /\ pc = "loaded"
    /\ args.command = "compile"
    /\ LET deps == GetDependencies(config) IN
         IF deps.state = "null"
           THEN /\ Crash("AttributeError", << >>)
                /\ UNCHANGED <<items, idx>>
           ELSE /\ items' = deps.items
                /\ idx' = 0
                /\ pc' = "resolve"
                /\ failure' = failure
    /\ UNCHANGED <<env, store, current, steps, path, config, todo, running,
                   invocations, report>>

\* the subprocess started without waiting for it (Popen)
AfterLaunchDetached(ret) == ret

\* the handler returning to the caller instead of exiting
OnErrorReturn(ret) == ret

\* run_subprocess returning "" to the caller after a timeout
OnTimeoutReturn(ret) == ret

\* tutorial: try: run_subprocess(...) except: "Error in code. Try again."
\* (the bare except catches the SystemExit of sys.exit as well)
Caught(call) == call.ret = "lesson_done"

\* subprocess.check_call / check_output block until the subprocess exits
AfterLaunch(ret) == "wait"

\* except subprocess.CalledProcessError: ... sys.exit(1)
OnError(ret) == "exited"

\* except subprocess.TimeoutExpired: ... sys.exit(1)
OnTimeout(ret) == "exited"

\* run_subprocess(cmd, timeout=...): the subprocess is started
Launch(call) ==
    /\ running' = running \cup {call}
    /\ invocations' = Append(invocations, call.argv)
    /\ pc' = AfterLaunch(call.ret)

\* resolve_dependencies: one iteration of the loop over deps.items()
ResolveNext ==
    /\ pc = "resolve"
    /\ idx < Len(items)
    /\ LET d == items[idx + 1] IN
         /\ idx' = idx + 1
         /\ report' = Append(report, [dep |-> d.dep, version |-> d.version,
                                      seen |-> store])
         /\ IF DepPathExists(store, d.dep, d.version)
              THEN UNCHANGED <<pc, running, invocations>>
              ELSE Launch(InstallCall(d, "resolve"))
    /\ UNCHANGED <<env, store, current, steps, path, config, items, todo,
                   failure>>

\* resolve_dependencies returns; compile goes on to the compiler call
ResolveEnd ==
    /\ pc = "resolve"
    /\ idx >= Len(items)
    /\ todo' = <<Call(CompileCmd, NoTimeout, {}, "exec")>>
    /\ pc' = "exec"
    /\ UNCHANGED <<env, store, locals, running, invocations, report, failure>>

\* test: the tests directory must exist
TestBody ==
    /\ pc = "loaded"
    /\ args.command = "test"
    /\ \E testDirExists \in BOOLEAN :
         IF testDirExists
           THEN /\ todo' = <<Call(TestCmd, NoTimeout, {}, "exec")>>
                /\ pc' = "exec"
                /\ failure' = failure
           ELSE /\ Exit("no_tests_dir", << >>)
                /\ todo' = todo
    /\ UNCHANGED <<env, store, locals, running, invocations, report>>

\* check: required_keys not in config
MissingKeys(c) ==
    {k \in {"name", "version"} :
        \/ k = "name" /\ c.name = Absent
        \/ k = "version" /\ c.version = Absent}

\* check: the keys, the source directory, then one parser call per file
CheckBody ==
    /\ pc = "loaded"
    /\ args.command = "check"
    /\ \E sourceDirExists \in BOOLEAN, n \in 0..MaxFiles :
         IF MissingKeys(config) # {}
           THEN /\ Exit("missing_keys", << >>)
                /\ todo' = todo
           ELSE IF ~sourceDirExists
           THEN /\ Exit("no_source_dir", << >>)
                /\ todo' = todo
           ELSE /\ todo' = FileCalls("check", n)
                /\ pc' = "exec"
                /\ failure' = failure
    /\ UNCHANGED <<env, store, locals, running, invocations, report>>

\* fmt: one parser call per file of the source directory
FmtBody ==
    /\ pc = "loaded"
    /\ args.command = "fmt"
    /\ \E n \in 0..MaxFiles :
         /\ todo' = FileCalls("fmt", n)
         /\ pc' = "exec"
    /\ UNCHANGED <<env, store, locals, running, invocations, report, failure>>

\* install without packages: the manifest's dependencies, if any
InstallBody ==
    /\ pc = "loaded"
    /\ args.command = "install"
    /\ LET deps == GetDependencies(config) IN
         IF deps.state = "map" /\ deps.items # << >>
           THEN /\ todo' = [k \in 1..Len(deps.items) |->
                               InstallCall(deps.items[k], "exec")]
                /\ pc' = "exec"
                /\ failure' = failure
           ELSE /\ Exit("no_packages", << >>)
                /\ todo' = todo
    /\ UNCHANGED <<env, store, locals, running, invocations, report>>

\* the handler's next run_subprocess call
ExecNext ==
    /\ pc = "exec"
    /\ todo # << >>
    /\ Launch(Head(todo))
    /\ todo' = Tail(todo)
    /\ UNCHANGED <<env, store, locals, report, failure>>

\* the handler returns: "... complete."
ExecEnd ==
    /\ pc = "exec"
    /\ todo = << >>
    /\ pc' = "done"
    /\ UNCHANGED <<env, store, locals, todo, running, invocations, report,
                   failure>>

\* the subprocess exits with status 0
SubprocessOk ==
    /\ pc = "wait"
    /\ \E r \in running :
         /\ running' = running \ {r}
         /\ store' = store \cup r.creates
         /\ pc' = r.ret
    /\ UNCHANGED <<env, locals, todo, invocations, report, failure>>

\* the subprocess exits with a non-zero status
SubprocessFails ==
    /\ pc = "wait"
    /\ \E r \in running :
         /\ running' = running \ {r}
         /\ failure' = Failure("CalledProcessError", r.argv)
         /\ pc' = IF Caught(r) THEN "prompt" ELSE OnError(r.ret)
    /\ UNCHANGED <<env, store, locals, todo, invocations, report>>

\* the timeout, when one was given, elapses
SubprocessTimeout ==
    /\ pc = "wait"
    /\ \E r \in running :
         /\ r.timeout # NoTimeout
         /\ running' = running \ {r}
         /\ failure' = Failure("TimeoutExpired", r.argv)
         /\ pc' = IF Caught(r) THEN "prompt" ELSE OnTimeout(r.ret)
    /\ UNCHANGED <<env, store, locals, todo, invocations, report>>

\* the executable cannot be started: OSError, caught by the tutorial only
SubprocessOSError ==
    /\ pc = "wait"
    /\ \E r \in running :
         /\ running' = running \ {r}
         /\ IF Caught(r)
              THEN /\ pc' = "prompt"
                   /\ failure' = Failure("OSError", r.argv)
              ELSE Crash("OSError", r.argv)
    /\ UNCHANGED <<env, store, locals, todo, invocations, report>>

\* tutorial: Prompt.ask("Your code (or 'skip')") for the current lesson; the
\* user gives up answering after MaxAttempts evaluations
TutorialPrompt ==
    /\ pc = "prompt"
    /\ todo # << >>
    /\ \E user_code \in {"skip", "code"} :
         IF user_code = "skip"
         THEN /\ todo' = Tail(todo)
              /\ UNCHANGED <<pc, running, invocations>>
         ELSE /\ Len(invocations) < MaxAttempts
              /\ Launch(Head(todo))
              /\ todo' = todo
    /\ UNCHANGED <<env, store, locals, report, failure>>

\* tutorial: the answer was evaluated: print the output, break
TutorialLessonDone ==
    /\ pc = "lesson_done"
    /\ todo' = Tail(todo)
    /\ pc' = "prompt"
    /\ UNCHANGED <<env, store, locals, running, invocations, report,
                   failure>>

\* tutorial: "Tutorial complete!"
TutorialEnd ==
    /\ pc = "prompt"
    /\ todo = << >>
    /\ pc' = "done"
    /\ UNCHANGED <<env, store, locals, todo, running, invocations, report,
                   failure>>

\* the install requests resolve_dependencies issued
ResolveInstalls(inv) ==
    SelectSeq(inv, LAMBDA a : a[1] = "vira-packages" /\ a[2] = "install")

\* the user invokes the same command again (a command whose subprocesses
\* write to the store; the others leave nothing behind)
Reinvoke ==
    /\ pc \in Finished
    /\ args.command \in {"compile", "install"}
    /\ pass < MaxPasses
    /\ pass' = pass + 1
    /\ passes' = Append(passes, [before |-> passStore, after |-> store,
                                 installs |-> Len(ResolveInstalls(invocations)),
                                 status |-> ExitStatus])
    /\ passStore' = store
    /\ pc' = "start"
    /\ current' = cwd
    /\ steps' = 0
    /\ path' = None
    /\ config' = EmptyDict
    /\ items' = << >>
    /\ idx' = 0
    /\ todo' = << >>
    /\ running' = {}
    /\ invocations' = << >>
    /\ report' = << >>
    /\ failure' = NoFailure
    /\ UNCHANGED <<files, cwd, content, args, handler, store>>

\* the places of main.py the compiler rejects: `args.global` in clean
\* (global is a keyword)
SyntaxErrors == {"args.global"}

\* the two `def run` of the body of class ViraCLI, in the order of the
\* source: the dispatcher, then the handler of the command run
RunDefs ==
    <<[is |-> "dispatcher", params |-> <<"self">>],
      [is |-> "handler", params |-> <<"self", "args">>]>>

\* the function the name `run` is bound to once the class body has been
\* executed: the later def rebinds the name
BoundRun == RunDefs[Len(RunDefs)]

\* cli.run(): the arguments of the call, self included
EntryCallArgs == <<"self">>

\* the dispatcher: help for -h or no command, else the registered handler
DispatcherOutcome(a) ==
    IF a.help \/ a.command = NoCommand
      THEN [pc |-> "done", handler |-> "help_cmd", failure |-> NoFailure]
      ELSE [pc |-> "start", handler |-> HandlerOf(a.command),
            failure |-> NoFailure]

\* what `python main.py` does with the command line a: the module is
\* compiled, the class body executed, and cli.run() called
EntryOutcome(a) ==
    IF SyntaxErrors # {}
      THEN [pc |-> "crashed", handler |-> "none",
            failure |-> Failure("SyntaxError", << >>)]
    ELSE IF Len(BoundRun.params) # Len(EntryCallArgs)
      THEN [pc |-> "crashed", handler |-> "none",
            failure |-> Failure("TypeError", << >>)]
    ELSE IF BoundRun.is = "dispatcher"
      THEN DispatcherOutcome(a)
      ELSE [pc |-> "start", handler |-> "run", failure |-> NoFailure]

\* if __name__ == "__main__": cli = ViraCLI(); cli.run()
Main ==
    /\ pc = "main"
    /\ pc' = EntryOutcome(args).pc
    /\ handler' = EntryOutcome(args).handler
    /\ failure' = EntryOutcome(args).failure
    /\ UNCHANGED <<files, cwd, content, store, args, pass, passes, passStore,
                   locals, todo, running, invocations, report>>

NextLocate == LocateFound \/ LocateUp \/ LocateNone

NextMain == Main

Next ==
    \/ Dispatch
    \/ LocateFound
    \/ LocateUp
    \/ LocateNone
    \/ LoadBytesYml
    \/ ResolveBegin
    \/ ResolveNext
    \/ ResolveEnd
    \/ TestBody
    \/ CheckBody
    \/ FmtBody
    \/ InstallBody
    \/ ExecNext
    \/ ExecEnd
    \/ SubprocessOk
    \/ SubprocessFails
    \/ SubprocessTimeout
    \/ SubprocessOSError
    \/ TutorialPrompt
    \/ TutorialLessonDone
    \/ TutorialEnd
    \/ Reinvoke

\* the CLI, invoked up to MaxPasses times
Spec == Init /\ [][Next]_vars

\* find_bytes_yml alone, on every tree
SpecLocate == InitLocate /\ [][NextLocate]_vars

\* the interpreter keeps executing the loop of find_bytes_yml
LiveLocate == SpecLocate /\ WF_vars(NextLocate)

\* the entry point of main.py, on every command line
SpecMain == InitMain /\ [][NextMain]_vars

(***************************************************************************)
(* find_bytes_yml (claims C1, C2), checked on every tree: SpecLocate.      *)
(***************************************************************************)
\* the nearest directory of the ancestor chain of d that holds a manifest
IsNearest(fs, start, d) ==
    /\ d \in Ancestors(start)
    /\ d \in fs
    /\ \A e \in Ancestors(start) : Len(e) > Len(d) => e \notin fs

NoManifestInChain == Ancestors(cwd) \cap files = {}

\* C1: when a manifest lies in an ancestor of the starting directory (the
\* starting directory itself, any directory above it, the filesystem root
\* included) and in no closer one, find_bytes_yml returns the path of exactly
\* that manifest.
C1_LocateReturnsNearest ==
    pc = "load" =>
        \A d \in Dirs :
            IsNearest(files, cwd, d) => path = ManifestPath(d)

\* C2: when no directory of the ancestor chain, from the starting directory
\* up to the filesystem root, holds a manifest, find_bytes_yml takes at most
\* as many parent steps as the starting directory is deep, raises nothing,
\* and ends by returning None.
C2_NotFoundReturnsNone ==
    /\ [](/\ steps <= Len(cwd)
          /\ Len(current) + steps = Len(cwd)
          /\ failure = NoFailure
          /\ (pc = "load" /\ NoManifestInChain) => path = None)
    /\ (NoManifestInChain ~> (pc = "load" /\ path = None))

\* C2 happens: manifests exist beside the chain, none in it, and the walk
\* from the deepest directory has returned None
C2_Witness ==
    /\ pc = "load"
    /\ NoManifestInChain
    /\ files # {}
    /\ Len(cwd) = MaxDepth
    /\ steps = MaxDepth
    /\ path = None

(***************************************************************************)
(* The commands (claims C3 to C10), checked under Spec.                    *)
(***************************************************************************)
\* load_bytes_yml has returned to the handler
Loaded == pc \notin {"start", "find", "load"}

IsInstall(argv) ==
    Len(argv) = 3 /\ argv[1] = "vira-packages" /\ argv[2] = "install"

\* the install request for name@version, spelled out
InstallRequest(dep, version) ==
    <<"vira-packages", "install", dep \o "@" \o version>>

\* the store entry of name and version, spelled out
EntryOf(d) == d.dep \o "-" \o d.version

\* an install request of this pass failed (non-zero exit or timeout)
InstallFailed ==
    /\ failure.kind \in {"CalledProcessError", "TimeoutExpired"}
    /\ IsInstall(failure.argv)

\* C3: a located manifest in which `name` is missing, or `version` is missing
\* or empty, is never handed to a command: loading it ends in the
\* missing-field failure.
C3_InvalidManifestRejected ==
    ( /\ Loaded
      /\ path # None
      /\ content.kind = "dict"
      /\ (content.name = Absent \/ content.version \in {Absent, ""}) )
        => (pc = "exited" /\ failure.kind = "missing_keys")

\* the probes of resolve_dependencies that found the entry absent, in order
Missing == SelectSeq(report, LAMBDA r : EntryOf(r) \notin r.seen)

\* resolve_dependencies has returned to compile
ResolveReturned ==
    /\ args.command = "compile"
    /\ \/ pc \in {"exec", "done"}
       \/ pc = "wait" /\ \E r \in running : r.argv = CompileCmd

InstallsOf(d) ==
    {k \in 1..Len(invocations) :
        invocations[k] = InstallRequest(d.dep, d.version)}

\* C4: when resolve_dependencies has returned (every install request having
\* succeeded), the install requests issued are, in order, exactly those of the
\* declared dependencies whose entry name-version was absent from the store
\* when it was probed, each as `install name@version`; a dependency whose
\* entry was in the store when the pass began gets none, and one whose entry
\* was absent then, and is the entry of no earlier dependency, gets one.
C4_InstallsExactlyTheMissing ==
    ResolveReturned =>
        /\ Len(report) = Len(items)
        /\ \A k \in 1..Len(items) :
             report[k].dep = items[k].dep /\ report[k].version = items[k].version
        /\ ResolveInstalls(invocations) =
             [k \in 1..Len(Missing) |->
                 InstallRequest(Missing[k].dep, Missing[k].version)]
        /\ \A k \in 1..Len(items) :
             /\ EntryOf(items[k]) \in passStore
                    => Cardinality(InstallsOf(items[k])) = 0
             /\ ( /\ EntryOf(items[k]) \notin passStore
                  /\ \A j \in 1..(k - 1) : EntryOf(items[j]) # EntryOf(items[k]) )
                    => Cardinality(InstallsOf(items[k])) = 1

\* C4 happens: two dependencies, the first in the store and the second not;
\* the pass ended with the single request for the second
C4_Witness ==
    /\ args.command = "compile"
    /\ pc = "done"
    /\ Len(items) = 2
    /\ EntryOf(items[1]) \in passStore
    /\ EntryOf(items[2]) \notin passStore
    /\ ResolveInstalls(invocations) =
         <<InstallRequest(items[2].dep, items[2].version)>>

\* C5: when an install request of resolve_dependencies exits non-zero (or
\* times out), the process stops there with exit status 1, the failure names
\* the request of that dependency, and that request is the last one issued:
\* no later dependency is probed or installed.
C5_FailedInstallStopsThePass ==
    (args.command = "compile" /\ InstallFailed) =>
        /\ pc = "exited"
        /\ ExitStatus = 1
        /\ running = {}
        /\ idx >= 1
        /\ idx = Len(report)
        /\ failure.argv = InstallRequest(items[idx].dep, items[idx].version)
        /\ invocations[Len(invocations)] = failure.argv

\* C5 happens: the request for the first dependency failed while the second
\* one is absent from the store
C5_Witness ==
    /\ args.command = "compile"
    /\ InstallFailed
    /\ Len(items) = 2
    /\ idx = 1
    /\ EntryOf(items[2]) \notin store
    /\ EntryOf(items[2]) # EntryOf(items[1])

\* the compiler has been invoked in this pass
Compiled == \E k \in 1..Len(invocations) : invocations[k] = CompileCmd

\* C6: in compile the compiler is invoked only after resolve_dependencies has
\* gone through every declared dependency without a failure: each was found
\* in the store or its install request was issued before the compiler's and
\* succeeded, so each entry is in the store; after a failed install request
\* the compiler is never invoked.
C6_CompileOnlyAfterResolution ==
    /\ (args.command = "compile" /\ InstallFailed) => ~Compiled
    /\ (args.command = "compile" /\ Compiled) =>
         /\ invocations[Len(invocations)] = CompileCmd
         /\ Len(report) = Len(items)
         /\ \A k \in 1..Len(items) :
              /\ \/ EntryOf(items[k]) \in report[k].seen
                 \/ InstallsOf(items[k]) # {}
              /\ EntryOf(items[k]) \in store

\* C6 happens: the compiler was invoked after an install request succeeded
C6_Witness ==
    /\ args.command = "compile"
    /\ Compiled
    /\ Len(items) = 2
    /\ Len(ResolveInstalls(invocations)) >= 1
    /\ pc = "done"

\* C7: with no manifest in the ancestor chain, compile, test, check and fmt
\* stop with an error before any external toolchain binary is invoked: in
\* such a run of these commands run_subprocess is never called.
C7_NoManifestStopsProjectCommands ==
    ( /\ Loaded
      /\ path = None
      /\ args.command \in {"compile", "test", "check", "fmt"} )
        => invocations = << >>

\* the dependencies the located manifest declares
Declared ==
    IF files # {} /\ content.kind = "dict" /\ content.deps.state = "map"
      THEN content.deps.items ELSE << >>

AllPresent(st) == \A k \in 1..Len(Declared) : EntryOf(Declared[k]) \in st

\* C8: a pass of resolve_dependencies that begins with every declared
\* dependency in the store (an empty mapping included) issues no install
\* request and leaves the store as it was, in the first invocation and in
\* every following one.
C8_ResolveIdempotent ==
    args.command = "compile" =>
        /\ AllPresent(passStore) =>
             /\ ResolveInstalls(invocations) = << >>
             /\ store = passStore
        /\ \A k \in 1..Len(passes) :
             AllPresent(passes[k].before) =>
                 /\ passes[k].installs = 0
                 /\ passes[k].after = passes[k].before

\* C8 happens: a second successful pass over two dependencies that were
\* both in the store before the first
C8_Witness ==
    /\ args.command = "compile"
    /\ pass = 2
    /\ pc = "done"
    /\ Len(items) = 2
    /\ AllPresent(passes[1].before)
    /\ passes[1].status = 0
    /\ passes[1].installs = 0
    /\ invocations = <<CompileCmd>>
    /\ store = passes[1].before

\* the place of an install request in the declared order
PlaceOf(argv) ==
    {k \in 1..Len(items) : argv = InstallRequest(items[k].dep, items[k].version)}

\* C9: resolve_dependencies goes through the declared dependencies in the
\* manifest's order, one at a time: the probes follow the declared order, the
\* install requests are a subsequence of it, the next probe starts only when
\* no subprocess is running, and at most one subprocess runs at any moment.
C9_SequentialInDeclaredOrder ==
    /\ Cardinality(running) <= 1
    /\ pc \in {"resolve", "exec"} => running = {}
    /\ args.command = "compile" =>
         /\ Len(report) = idx
         /\ idx <= Len(items)
         /\ \A k \in 1..Len(report) :
              report[k].dep = items[k].dep /\ report[k].version = items[k].version
         /\ LET inst == ResolveInstalls(invocations) IN
              /\ \A k \in 1..Len(inst) : PlaceOf(inst[k]) # {}
              /\ \A k, l \in 1..Len(inst) :
                   k < l => \A m \in PlaceOf(inst[k]), n \in PlaceOf(inst[l]) : m < n

\* C9 happens: two install requests were issued in one pass, the second
\* while the first had returned
C9_Witness ==
    /\ args.command = "compile"
    /\ Len(ResolveInstalls(invocations)) = 2
    /\ pc = "wait"
    /\ Cardinality(running) = 1

\* C10: for a manifest that parsed, reading `dependencies` never fails: with
\* the key absent, or present without a value, resolve_dependencies completes
\* with no install request instead of raising.
C10_DependenciesAccessorNeverFails ==
    ( /\ args.command = "compile"
      /\ Loaded
      /\ pc # "loaded"
      /\ content.kind # "malformed"
      /\ config.deps.state \in {"absent", "null"} )
        => /\ failure.kind # "AttributeError"
           /\ pc # "crashed" \/ failure.kind = "OSError"
           /\ ResolveInstalls(invocations) = << >>

\* C11: when the located manifest is not valid YAML, load_bytes_yml ends in
\* the YAML failure, which reaches the caller (the process exits with status
\* 1, or the error is raised again and ends it): it never returns a dict, and
\* the command neither probes the store nor invokes a toolchain binary.
C11_MalformedManifestIsFatal ==
    (Loaded /\ path # None /\ content.kind = "malformed") =>
        /\ pc \in {"exited", "crashed"}
        /\ failure.kind = "YAMLError"
        /\ ExitStatus = 1
        /\ config = EmptyDict
        /\ items = << >>
        /\ report = << >>
        /\ invocations = << >>
        /\ running = {}

\* C11 happens: compile located the manifest in the directory above, it is
\* malformed, and the process exited
C11_Witness ==
    /\ args.command = "compile"
    /\ path = ManifestPath(Parent(cwd))
    /\ content.kind = "malformed"
    /\ pc = "exited"
    /\ failure.kind = "YAMLError"

(***************************************************************************)
(* run_subprocess: timeouts and non-zero exits (claim C12).                *)
(***************************************************************************)
\* run_subprocess ended on a non-zero exit or on a timeout
SubprocessFailed == failure.kind \in {"CalledProcessError", "TimeoutExpired"}

\* the command was aborted by the subprocess last started
AbortedByLastCall ==
    /\ pc = "exited"
    /\ ExitStatus = 1
    /\ running = {}
    /\ invocations # << >>
    /\ invocations[Len(invocations)] = failure.argv

\* C12 as stated: after a timeout or a non-zero exit of a subprocess, in
\* capture and in pass-through mode alike, the command is aborted with exit
\* status 1 and none of its later steps runs
C12_FailureAbortsTheCommand == SubprocessFailed => AbortedByLastCall

\* C12 amended: a timeout and a non-zero exit of a subprocess both abort the
\* command with exit status 1 and none of its later steps runs, in capture
\* and in pass-through mode alike, except in the tutorial, whose handler
\* catches the exit and asks for the answer again: the tutorial never exits
\* with a failure
C12_FailureAbortsUnlessCaught ==
    /\ (SubprocessFailed /\ args.command # "tutorial") => AbortedByLastCall
    /\ args.command = "tutorial" => pc \notin {"exited", "crashed"}

\* C12 happens: the run handler's subprocess timed out and the command was
\* aborted
C12_Witness ==
    /\ args.command = "run"
    /\ failure = Failure("TimeoutExpired", RunCmd)
    /\ pc = "exited"

(***************************************************************************)
(* resolve_dependencies and `dev-dependencies` (claim C13).                *)
(***************************************************************************)
\* the store checks of this pass for the dependency d
ProbesOf(d) ==
    {k \in 1..Len(report) :
        report[k].dep = d.dep /\ report[k].version = d.version}

\* the dependencies the loaded manifest names in both mappings
NamedInBoth ==
    {d \in {config.dev[j] : j \in 1..Len(config.dev)} :
        \E k \in 1..Len(config.deps.items) : config.deps.items[k] = d}

\* C13: when resolve_dependencies has returned, a dependency named in both
\* `dependencies` and `dev-dependencies` has been resolved twice in the pass:
\* its store entry was checked once for each mapping that names it
C13_NamedInBothResolvedTwice ==
    ResolveReturned =>
        \A d \in NamedInBoth : Cardinality(ProbesOf(d)) = 2

(***************************************************************************)
(* The entry point (claim C14), checked on every command line: SpecMain.   *)
(***************************************************************************)
\* C14: once the entry point's call ViraCLI().run() has acted, the handler
\* registered for the command has been called with the parsed arguments;
\* with --help or without a command, help was shown, no other handler was
\* called and the process exited with status 0
C14_EntryPointCallsRegisteredHandler ==
    pc # "main" =>
        IF args.help \/ args.command = NoCommand
          THEN handler = "help_cmd" /\ pc = "done" /\ ExitStatus = 0
          ELSE /\ handler = HandlerOf(args.command)
               /\ failure.kind \notin {"SyntaxError", "TypeError"}

(***************************************************************************)
(* The store key f"{dep}-{version}" (claim C15).                           *)
(***************************************************************************)
\* C15: the store key is injective over the declared dependencies, so that
\* resolve_dependencies never skips the install of an absent dependency
\* because of another pair's entry: two different declared (name, version)
\* pairs have different keys, and when a pass began with an empty store and
\* resolve_dependencies has returned, every declared dependency got its
\* install request
C15_StoreKeyInjective ==
    ResolveReturned =>
        /\ \A j, k \in 1..Len(items) :
              items[j] # items[k] =>
                  DepPathName(items[j].dep, items[j].version)
                      # DepPathName(items[k].dep, items[k].version)
        /\ passStore = {} =>
              \A k \in 1..Len(items) : InstallsOf(items[k]) # {}

====
